---- MODULE Spec2Model ----
(***************************************************************************)
(* The CSV dashboard: the page (pages/index.tsx: Home) with its selected   *)
(* source, its four error banners and its export, and the two consumers of *)
(* the selected source, DataTable and ChartView (useFetchCsvData), each    *)
(* with its own fetch + parse of the source and its own data / loading /   *)
(* error state.                                                            *)
(*                                                                         *)
(* A string is a sequence of one-character strings.  A cell value is a     *)
(* record [kind, s, n]: kind is the JavaScript type of the value, s its    *)
(* text (the characters of a string, the JSON text of an array or object,  *)
(* the decimal text of a number) and n the value of a number.              *)
(* A record (a JavaScript object) is the sequence of its [key, value]      *)
(* entries in insertion order, so {} is << >>.                             *)
(***************************************************************************)
EXTENDS Integers, Sequences, FiniteSets, TLC

(***************************************************************************)
(* Bounds of the model.                                                    *)
(***************************************************************************)
\* files the user uploads in one run (each gets a fresh blob URL)
MaxUploads == 2
\* reads of a chosen file the uploader starts in one run
MaxReads == 1
\* exports the user starts in one run
MaxExports == 2

(***************************************************************************)
(* Strings.                                                                *)
(***************************************************************************)
\* String.prototype.toLowerCase, on the characters the model uses
LowerChar(ch) ==
  CASE ch = "A" -> "a"
    [] ch = "B" -> "b"
    [] ch = "R" -> "r"
    [] ch = "E" -> "e"
    [] OTHER -> ch

toLowerCase(s) == [i \in 1..Len(s) |-> LowerChar(s[i])]

\* String.prototype.includes: f occurs in s as a contiguous substring
includes(s, f) ==
  \E i \in 0..(Len(s) - Len(f)) : SubSeq(s, i + 1, i + Len(f)) = f

\* String.prototype.endsWith
endsWith(s, suffix) ==
  /\ Len(suffix) <= Len(s)
  /\ SubSeq(s, Len(s) - Len(suffix) + 1, Len(s)) = suffix

(***************************************************************************)
(* Values.                                                                 *)
(***************************************************************************)
Str(s) == [kind |-> "string", s |-> s, n |-> 0]
\* an array as the parser delivers it (__parsed_extra), with its JSON text
Arr(json) == [kind |-> "array", s |-> json, n |-> 0]
Undefined == [kind |-> "undefined", s |-> << >>, n |-> 0]
Null == [kind |-> "null", s |-> << >>, n |-> 0]
\* a plain object, with its JSON text
Obj(json) == [kind |-> "object", s |-> json, n |-> 0]
\* a UI element: an object with a $$typeof key
Element == [kind |-> "element", s |-> <<"{", "}">>, n |-> 0]
\* a function, with its source text
Func(src) == [kind |-> "function", s |-> src, n |-> 0]

DigitChar(d) ==
  CASE d = 0 -> "0" [] d = 1 -> "1" [] d = 2 -> "2" [] d = 3 -> "3" [] d = 4 -> "4"
    [] d = 5 -> "5" [] d = 6 -> "6" [] d = 7 -> "7" [] d = 8 -> "8" [] OTHER -> "9"

\* the decimal text of a natural number
RECURSIVE DecimalText(_)
DecimalText(n) ==
  IF n < 10 THEN <<DigitChar(n)>>
  ELSE Append(DecimalText(n \div 10), DigitChar(n % 10))

\* a number (a natural number is all the model needs)
Num(n) == [kind |-> "number", s |-> DecimalText(n), n |-> n]

\* String(val)
String(val) ==
  CASE val.kind = "string" -> val.s
    [] val.kind = "undefined" -> <<"u", "n", "d", "e", "f", "i", "n", "e", "d">>
    [] val.kind = "null" -> <<"n", "u", "l", "l">>
    [] OTHER -> val.s

\* typeof value === 'object' for a truthy value: arrays, objects, UI elements
IsObjectValue(val) == val.kind \in {"array", "object", "element"}

ReactElementText ==
  <<"[", "R", "e", "a", "c", "t", " ", "E", "l", "e", "m", "e", "n", "t", "]">>

\* the value stored by the sanitizing loop of the table, the hook and the export
SanitizeValue(val) ==
  IF val.kind = "element" THEN Str(ReactElementText)
  ELSE IF IsObjectValue(val) THEN Str(val.s)
  ELSE val

\* a parsed row: an object with its entries, or something that is not an object
Row(entries) == [isObject |-> TRUE, entries |-> entries]
NonObjectRow == [isObject |-> FALSE, entries |-> << >>]
Entry(k, v) == [key |-> k, value |-> v]

\* one row of results.data to one sanitized record
SanitizeRow(row) ==
  IF ~row.isObject THEN << >>
  ELSE [i \in 1..Len(row.entries) |->
          Entry(row.entries[i].key, SanitizeValue(row.entries[i].value))]

\* results.data.map(sanitize)
Sanitize(rows) == [i \in 1..Len(rows) |-> SanitizeRow(rows[i])]

\* row[key]: the value of the last entry under key, undefined when there is none
Get(rec, key) ==
  IF \E i \in 1..Len(rec) : rec[i].key = key
  THEN rec[CHOOSE i \in 1..Len(rec) : rec[i].key = key].value
  ELSE Undefined

\* Object.keys(rec)
Keys(rec) == [i \in 1..Len(rec) |-> rec[i].key]

(***************************************************************************)
(* The environment: what a fetch and the parser can answer.                *)
(***************************************************************************)
\* the page's initial csvFilePath and the blob URL of the k-th upload
DefaultPath == <<"/2017PurchasePricesDec.csv">>
BlobUrl(k) == <<"blob:", ToString(k)>>
EmptyPath == << >>

\* response.status of a response that is not ok
Statuses == {404, 500}
\* the message of a rejected fetch / response.text() / import
RejectMessages == {<<"Failed to fetch">>}
\* the message the parser hands to its error callback
ParserMessages == {<<"Unable to parse">>}

\* results of Papa.parse: results.data and the number of results.errors
ResTwoRows ==
  [data |-> <<Row(<<Entry("name", Str(<<"A", "b">>)), Entry("price", Str(<<"1">>))>>),
              Row(<<Entry("name", Str(<<"b">>)), Entry("price", Str(<<"x">>))>>)>>,
   errors |-> 0]
\* a row that is not an object, then an ordinary row
ResNonObject ==
  [data |-> <<NonObjectRow, Row(<<Entry("name", Str(<<"a">>))>>)>>,
   errors |-> 0]
\* a row with more fields than the header (TooManyFields): one row-level error
ResTooManyFields ==
  [data |-> <<Row(<<Entry("name", Str(<<"a">>)),
                    Entry("__parsed_extra", Arr(<<"[", "\"", "b", "\"", "]">>))>>)>>,
   errors |-> 1]
\* a header line only
ResNoRows == [data |-> << >>, errors |-> 0]

ParseResults == {ResTwoRows, ResNonObject, ResTooManyFields, ResNoRows}

\* rows with fewer fields than the header (TooFewFields): the keys are absent
ResTooFewFields ==
  [data |-> <<Row(<<Entry("name", Str(<<"b">>)), Entry("price", Str(<<"9">>))>>),
              Row(<<Entry("name", Str(<<"a">>))>>),
              Row(<<Entry("name", Str(<<"c">>))>>)>>,
   errors |-> 2]
\* prices of one and of two digits, one of them twice
ResPrices ==
  [data |-> <<Row(<<Entry("name", Str(<<"a">>)), Entry("price", Str(<<"9">>))>>),
              Row(<<Entry("name", Str(<<"b">>)), Entry("price", Str(<<"1", "0">>))>>),
              Row(<<Entry("name", Str(<<"c">>)), Entry("price", Str(<<"9">>))>>)>>,
   errors |-> 0]
\* an empty cell in a later row, and in the first row
ResEmptyCell ==
  [data |-> <<Row(<<Entry("name", Str(<<"a">>)), Entry("price", Str(<<"1">>))>>),
              Row(<<Entry("name", Str(<<"b">>)), Entry("price", Str(<< >>))>>)>>,
   errors |-> 0]
ResEmptyFirst ==
  [data |-> <<Row(<<Entry("name", Str(<<"a">>)), Entry("price", Str(<< >>))>>),
              Row(<<Entry("name", Str(<<"b">>)), Entry("price", Str(<<"1">>))>>)>>,
   errors |-> 0]
\* text in the first row of a column, a number in the second
ResTextFirst ==
  [data |-> <<Row(<<Entry("name", Str(<<"a">>)), Entry("price", Str(<<"x">>))>>),
              Row(<<Entry("name", Str(<<"b">>)), Entry("price", Str(<<"1">>))>>)>>,
   errors |-> 0]

\* what the parser can deliver for the text of a CSV file: strings, absent keys
\* and the array under __parsed_extra
TextResults ==
  ParseResults \cup {ResTooFewFields, ResPrices, ResEmptyCell, ResEmptyFirst, ResTextFirst}

\* rows with a value of every JavaScript type the sanitizing loop tells apart
ResNumbers ==
  [data |-> <<Row(<<Entry("name", Str(<<"a">>)), Entry("price", Num(9))>>),
              Row(<<Entry("name", Null), Entry("price", Num(10))>>),
              Row(<<Entry("name", Str(<<"b">>))>>)>>,
   errors |-> 0]
ResObjects ==
  [data |-> <<Row(<<Entry("name", Obj(<<"{", "}">>)),
                    Entry("price", Arr(<<"[", "\"", "b", "\"", "]">>))>>),
              Row(<<Entry("name", Element), Entry("price", Undefined)>>)>>,
   errors |-> 0]
ResFunction ==
  [data |-> <<Row(<<Entry("name", Func(<<"(", ")", " ", "=", ">", " ", "1">>)),
                    Entry("price", Str(<<"1">>))>>),
              Row(<<Entry("name", Str(<<"a">>)), Entry("price", Null)>>)>>,
   errors |-> 0]

AnyResults == TextResults \cup {ResNumbers, ResObjects, ResFunction}

\* e.target.files?.[0]: no file, or a file with its name
NoFile == [present |-> FALSE, name |-> << >>]
File(name) == [present |-> TRUE, name |-> name]
DotCsv == <<".", "c", "s", "v">>
\* the files the user can choose: a.csv, a.txt, A.CSV, or none
Files ==
  {NoFile,
   File(<<"a", ".", "c", "s", "v">>),
   File(<<"a", ".", "t", "x", "t">>),
   File(<<"A", ".", "C", "S", "V">>)}

\* the text typed into the filter box
Filters == {<< >>, <<"a">>, <<"B">>}

(***************************************************************************)
(* Errors.  A message is a non-empty sequence of its parts; null is << >>. *)
(***************************************************************************)
NoError == << >>
\* if (error): null and "" are falsy
Truthy(e) == e # << >>

\* the message with the status left out
HttpErrorMessageWithoutStatus(status) == <<"HTTP error! status: ">>

\* `HTTP error! status: ${response.status}`
HttpErrorMessage(status) == <<"HTTP error! status: ", ToString(status)>>
\* `Network response was not ok: ${response.status}`
NotOkMessage(status) == <<"Network response was not ok: ", ToString(status)>>
\* `Error fetching CSV file: ${err.message}`
FetchErrorMessage(msg) == <<"Error fetching CSV file: ">> \o msg
SelectionMessage == <<"Please upload a CSV file first.">>
ParseErrorMessage == <<"Error parsing CSV file.">>
ExportErrorMessage == <<"Error generating CSV file for download.">>
\* the messages of the uploader
SelectFileMessage == <<"Please select a file">>
NotCsvMessage == <<"Please upload a CSV file">>
ProcessingMessage == <<"Error processing file">>
ReadingMessage == <<"Error reading file">>

(***************************************************************************)
(* State.  DataTable and ChartView (through useFetchCsvData) run the same  *)
(* ingestion, each on state of its own, and neither reads or writes the     *)
(* other's state or the page's: a behaviour follows the page and one of     *)
(* the two components, named by consumer.                                   *)
(***************************************************************************)
Consumers == {"table", "chart"}

VARIABLES
  consumer,      \* the component followed: DataTable or ChartView
  csvFilePath,   \* Home: the selected source
  csvError,      \* Home: the four error banners
  fetchError,
  parseError,
  exportError,
  pageMounted,   \* the page (and with it the component) is mounted
  data,          \* the component's sanitized records
  loading,       \* the component's loading flag
  error,         \* the component's error message, or null
  filter,        \* DataTable
  sortField,     \* DataTable: a column name, or NoSort for null
  sortAsc,       \* DataTable
  attempts,      \* the runs of the component's fetchData that have not ended
  exports,       \* the runs of handleExport, in the order they were started
  downloads,     \* files handed to the browser by link.click()
  exported,      \* the records serialized into the last of these files
  nextBlob,      \* blob URLs created so far
  uploaderError, \* FileUploader: its own error message, or null
  reading        \* FileReaders whose readAsText has not ended

vars == <<consumer, csvFilePath, csvError, fetchError, parseError, exportError,
          pageMounted, data, loading, error, filter, sortField, sortAsc, attempts,
          exports, downloads, exported, nextBlob, uploaderError, reading>>

pageErrors == <<csvError, fetchError, parseError, exportError>>
consumerState == <<data, loading, error>>
tableControls == <<filter, sortField, sortAsc>>

\* sortField === null
NoSort == "null"

\* one run of fetchData: its source, its closure's isMounted, and where it is
\* ("fetch": awaiting fetch; "text": awaiting response.text() and then
\* import('papaparse'), between which the run does nothing)
NewAttempt(path) == [src |-> path, isMounted |-> TRUE, pc |-> "fetch"]

\* the cleanup of the effect: isMounted = false in the closure of each run
Cleanup(atts) == {[a EXCEPT !.isMounted = FALSE] : a \in atts}

\* the effect running again without the cleanup of the previous run
RunEffectWithoutCleanup(atts, path) == atts \cup {NewAttempt(path)}

\* useEffect(..., [csvFilePath]) running again: the cleanup of the previous
\* run, then fetchData() for the new path
RunEffect(atts, path) == Cleanup(atts) \cup {NewAttempt(path)}

Init ==
  /\ consumer \in Consumers
  /\ csvFilePath = DefaultPath
  /\ csvError = NoError
  /\ fetchError = NoError
  /\ parseError = NoError
  /\ exportError = NoError
  /\ pageMounted = TRUE
  /\ data = << >>
  /\ loading = TRUE
  /\ error = NoError
  /\ filter = << >>
  /\ sortField = NoSort
  /\ sortAsc = TRUE
  /\ attempts = {NewAttempt(DefaultPath)}
  /\ exports = << >>
  /\ downloads = 0
  /\ exported = << >>
  /\ nextBlob = 0
  /\ uploaderError = NoError
  /\ reading = 0

(***************************************************************************)
(* Ingestion: one run of fetchData.                                        *)
(***************************************************************************)
\* the run moves on without touching the component's state
Advance(a, pc) ==
  /\ attempts' = (attempts \ {a}) \cup {[a EXCEPT !.pc = pc]}
  /\ UNCHANGED consumerState

\* catch (err): if (!isMounted) return; setError(err.message); setLoading(false)
Catch(a, msg) ==
  /\ attempts' = attempts \ {a}
  /\ IF ~a.isMounted THEN UNCHANGED consumerState
     ELSE /\ error' = msg
          /\ loading' = FALSE
          /\ UNCHANGED data

\* complete: (results) => ...: if (!isMounted) return; sanitize; setData;
\* setLoading(false)
Complete(a, r) ==
  /\ attempts' = attempts \ {a}
  /\ IF ~a.isMounted THEN UNCHANGED consumerState
     ELSE /\ data' = Sanitize(r.data)
          /\ loading' = FALSE
          /\ UNCHANGED error

\* error: (err) => ...: if (!isMounted) return; setError(err.message);
\* setLoading(false)
OnParserError(a, msg) ==
  /\ attempts' = attempts \ {a}
  /\ IF ~a.isMounted THEN UNCHANGED consumerState
     ELSE /\ error' = msg
          /\ loading' = FALSE
          /\ UNCHANGED data

pageState == <<consumer, csvFilePath, pageErrors, pageMounted, tableControls,
               exports, downloads, exported, nextBlob, uploaderError, reading>>

\* fetch resolves with an ok response
FetchOk(a) ==
  /\ a.pc = "fetch"
  /\ Advance(a, "text")
  /\ UNCHANGED pageState

\* fetch resolves with a response that is not ok: the throw lands in catch
FetchNotOk(a, status) ==
  /\ a.pc = "fetch"
  /\ Catch(a, HttpErrorMessage(status))
  /\ UNCHANGED pageState

\* fetch, response.text() or the import rejects: catch
AwaitRejects(a, msg) ==
  /\ a.pc \in {"fetch", "text"}
  /\ Catch(a, msg)
  /\ UNCHANGED pageState

\* the text and the import resolve; Papa.parse runs and calls complete(results)
ParseCompletes(a, r) ==
  /\ a.pc = "text"
  /\ Complete(a, r)
  /\ UNCHANGED pageState

\* the text and the import resolve; Papa.parse runs and calls error(err)
ParseFails(a, msg) ==
  /\ a.pc = "text"
  /\ OnParserError(a, msg)
  /\ UNCHANGED pageState

(***************************************************************************)
(* The table's derived views: filteredData and sortedData.                 *)
(***************************************************************************)
\* Object.values(row).some(val => String(val).toLowerCase().includes(filter.toLowerCase()))
RowMatches(rec, f) ==
  \E i \in 1..Len(rec) :
    includes(toLowerCase(String(rec[i].value)), toLowerCase(f))

\* data.filter(row => ...)
FilterRows(rows, f) ==
  LET Keep(rec) == RowMatches(rec, f) IN SelectSeq(rows, Keep)

\* the memo without its test of error
FilteredDataOfIgnoringError(rows, isLoading, err, f) ==
  IF isLoading \/ Len(rows) = 0 THEN << >>
  ELSE FilterRows(rows, f)

\* the memo: nothing while loading, with an error, or without rows
FilteredDataOf(rows, isLoading, err, f) ==
  IF isLoading \/ Truthy(err) \/ Len(rows) = 0 THEN << >>
  ELSE FilterRows(rows, f)

FilteredData == FilteredDataOf(data, loading, error, filter)

\* the collation weight of a character: punctuation, symbols, digits, letters
\* (letters by their lower-case form)
PrimaryRank(ch) ==
  CASE ch = " " -> 1
    [] ch = "\"" -> 2
    [] ch = "(" -> 3
    [] ch = ")" -> 4
    [] ch = "[" -> 5
    [] ch = "]" -> 6
    [] ch = "{" -> 7
    [] ch = "}" -> 8
    [] ch = "=" -> 20
    [] ch = ">" -> 21
    [] ch = "0" -> 30
    [] ch = "1" -> 31
    [] ch = "9" -> 39
    [] LowerChar(ch) = "a" -> 50
    [] LowerChar(ch) = "b" -> 51
    [] LowerChar(ch) = "c" -> 52
    [] LowerChar(ch) = "e" -> 54
    [] LowerChar(ch) = "l" -> 61
    [] LowerChar(ch) = "m" -> 62
    [] LowerChar(ch) = "n" -> 63
    [] LowerChar(ch) = "r" -> 67
    [] LowerChar(ch) = "t" -> 69
    [] LowerChar(ch) = "x" -> 73
    [] OTHER -> 80

\* lexicographic comparison of two sequences of weights
RECURSIVE CompareWeights(_, _)
CompareWeights(u, v) ==
  IF u = << >> /\ v = << >> THEN 0
  ELSE IF u = << >> THEN -1
  ELSE IF v = << >> THEN 1
  ELSE IF Head(u) < Head(v) THEN -1
  ELSE IF Head(u) > Head(v) THEN 1
  ELSE CompareWeights(Tail(u), Tail(v))

\* lower case sorts before upper case when the letters are the same
CaseRank(ch) == IF LowerChar(ch) = ch THEN 0 ELSE 1

\* String.prototype.localeCompare: letters first, case only to break a tie
localeCompare(s, t) ==
  LET primary == CompareWeights([i \in 1..Len(s) |-> PrimaryRank(s[i])],
                                [i \in 1..Len(t) |-> PrimaryRank(t[i])])
  IN IF primary # 0 THEN primary
     ELSE CompareWeights([i \in 1..Len(s) |-> CaseRank(s[i])],
                         [i \in 1..Len(t) |-> CaseRank(t[i])])

\* aVal == null || aVal === undefined
IsNullish(val) == val.kind \in {"null", "undefined"}

\* the comparator with a missing second value sorted like a missing first one
CompareNullSecondLikeFirst(a, b, field, asc) ==
  IF field = NoSort THEN 0
  ELSE LET aVal == Get(a, field)
           bVal == Get(b, field)
       IN IF IsNullish(aVal) THEN (IF asc THEN -1 ELSE 1)
          ELSE IF IsNullish(bVal) THEN (IF asc THEN -1 ELSE 1)
          ELSE IF aVal.kind = "number" /\ bVal.kind = "number"
            THEN (IF asc THEN aVal.n - bVal.n ELSE bVal.n - aVal.n)
          ELSE IF asc THEN localeCompare(String(aVal), String(bVal))
          ELSE localeCompare(String(bVal), String(aVal))

\* the comparator of sortedData; no value of the model is a Date, so two
\* present values that are not both numbers are compared by localeCompare
Compare(a, b, field, asc) ==
  IF field = NoSort THEN 0
  ELSE LET aVal == Get(a, field)
           bVal == Get(b, field)
       IN IF IsNullish(aVal) THEN (IF asc THEN -1 ELSE 1)
          ELSE IF IsNullish(bVal) THEN (IF asc THEN 1 ELSE -1)
          ELSE IF aVal.kind = "number" /\ bVal.kind = "number"
            THEN (IF asc THEN aVal.n - bVal.n ELSE bVal.n - aVal.n)
          ELSE IF asc THEN localeCompare(String(aVal), String(bVal))
          ELSE localeCompare(String(bVal), String(aVal))

\* Array.prototype.sort is stable: an element goes behind every element that
\* does not compare greater than it
RECURSIVE InsertRow(_, _, _, _)
InsertRow(sorted, x, field, asc) ==
  IF sorted = << >> THEN <<x>>
  ELSE LET last == sorted[Len(sorted)]
       IN IF Compare(last, x, field, asc) > 0
          THEN Append(InsertRow(SubSeq(sorted, 1, Len(sorted) - 1), x, field, asc), last)
          ELSE Append(sorted, x)

RECURSIVE SortRows(_, _, _)
SortRows(rows, field, asc) ==
  IF rows = << >> THEN << >>
  ELSE InsertRow(SortRows(SubSeq(rows, 1, Len(rows) - 1), field, asc),
                 rows[Len(rows)], field, asc)

SortedDataOf(filtered, field, asc) ==
  IF Len(filtered) = 0 THEN << >> ELSE SortRows(filtered, field, asc)

SortedData == SortedDataOf(FilteredData, sortField, sortAsc)

\* what the component returns: the gates before the table
RenderOf(rows, isLoading, err) ==
  IF isLoading THEN "loading"
  ELSE IF Truthy(err) THEN "error"
  ELSE IF Len(rows) = 0 THEN "empty"
  ELSE "content"

Render == RenderOf(data, loading, error)

\* the rows of <tbody>: none unless the table itself is rendered
DisplayedRows == IF consumer = "table" /\ Render = "content" THEN SortedData ELSE << >>

\* Object.keys(data[0]), the clickable headers
Headers == IF consumer = "table" /\ Render = "content" THEN Keys(data[1]) ELSE << >>

(***************************************************************************)
(* The chart's derived view: chartData.                                    *)
(***************************************************************************)
IsDigit(ch) == ch \in {"0", "1", "2", "3", "4", "5", "6", "7", "8", "9"}

DigitValue(ch) ==
  CASE ch = "0" -> 0 [] ch = "1" -> 1 [] ch = "2" -> 2 [] ch = "3" -> 3
    [] ch = "4" -> 4 [] ch = "5" -> 5 [] ch = "6" -> 6 [] ch = "7" -> 7
    [] ch = "8" -> 8 [] OTHER -> 9

\* !isNaN(Number(s)) for the strings of the model (no sign, point, exponent,
\* radix prefix or white space): the empty string is 0, digits are their value
IsNumericString(s) == \A i \in 1..Len(s) : IsDigit(s[i])

RECURSIVE NumberOf(_)
NumberOf(s) ==
  IF s = << >> THEN 0
  ELSE 10 * NumberOf(SubSeq(s, 1, Len(s) - 1)) + DigitValue(s[Len(s)])

\* the test of numericKeys on the first record, and of each point
IsNumericValue(val) ==
  /\ ~IsNullish(val)
  /\ \/ val.kind = "number"
     \/ val.kind = "string" /\ IsNumericString(val.s)

\* the chart's own sanitizing loop: a UI element becomes null
ChartSanitizeValue(val) ==
  IF val.kind = "element" THEN Null
  ELSE IF IsObjectValue(val) THEN Str(val.s)
  ELSE val

NullPoint == [isNull |-> TRUE, n |-> 0]
Point(n) == [isNull |-> FALSE, n |-> n]

\* one point of a series
PointOf(rec, key) ==
  LET value == ChartSanitizeValue(Get(rec, key))
  IN IF value.kind = "number" THEN Point(value.n)
     ELSE IF value.kind = "string" /\ IsNumericString(value.s) THEN Point(NumberOf(value.s))
     ELSE NullPoint

NoChart == [none |-> TRUE, labels |-> << >>, datasets |-> << >>]

\* Object.keys(data[0]).filter(...)
NumericKeys(rows) ==
  LET Eligible(key) == IsNumericValue(Get(rows[1], key))
  IN SelectSeq(Keys(rows[1]), Eligible)

ChartDataOf(rows, isLoading, err) ==
  IF isLoading \/ Truthy(err) \/ Len(rows) = 0 THEN NoChart
  ELSE LET numericKeys == NumericKeys(rows)
       IN IF Len(numericKeys) = 0 THEN NoChart
          ELSE [none |-> FALSE,
                labels |-> [i \in 1..Len(rows) |-> <<"Row ", ToString(i)>>],
                datasets |-> [k \in 1..Len(numericKeys) |->
                   [label |-> numericKeys[k],
                    data |-> [i \in 1..Len(rows) |-> PointOf(rows[i], numericKeys[k])]]]]

ChartData == ChartDataOf(data, loading, error)

(***************************************************************************)
(* The page: selecting a source, unmounting, the table's controls.         *)
(***************************************************************************)
\* handleFileSelected(filePath); when csvFilePath changes, the component's
\* effect runs again in the same commit
handleFileSelected(filePath) ==
  /\ csvFilePath' = filePath
  /\ csvError' = NoError
  /\ fetchError' = NoError
  /\ parseError' = NoError
  /\ exportError' = NoError
  /\ attempts' = IF filePath = csvFilePath THEN attempts
                 ELSE RunEffect(attempts, filePath)
  /\ UNCHANGED consumerState

\* the try block of reader.onload: a blob URL is created and selected
SelectBlob ==
  /\ nextBlob' = nextBlob + 1
  /\ handleFileSelected(BlobUrl(nextBlob + 1))
  /\ UNCHANGED <<consumer, pageMounted, tableControls, exports, downloads, exported>>

\* the user chooses a .csv file and its read succeeds, taken as one step:
\* setError(null), then the blob URL is created and selected
UploadFile ==
  /\ pageMounted
  /\ nextBlob < MaxUploads
  /\ SelectBlob
  /\ uploaderError' = NoError
  /\ UNCHANGED reading

\* everything but the uploader's own state
outsideUploader == <<consumer, csvFilePath, pageErrors, pageMounted, consumerState,
                     tableControls, attempts, exports, downloads, exported, nextBlob>>

\* onChange that clears the page's errors when it rejects a name
handleFileChangeClearingErrors(file) ==
  /\ pageMounted
  /\ IF ~file.present
     THEN /\ uploaderError' = SelectFileMessage
          /\ UNCHANGED <<reading, pageErrors>>
     ELSE IF ~endsWith(file.name, DotCsv)
     THEN /\ uploaderError' = NotCsvMessage
          /\ csvError' = NoError
          /\ fetchError' = NoError
          /\ parseError' = NoError
          /\ exportError' = NoError
          /\ UNCHANGED reading
     ELSE /\ nextBlob + reading < MaxReads
          /\ uploaderError' = NoError
          /\ reading' = reading + 1
          /\ UNCHANGED pageErrors
  /\ UNCHANGED <<consumer, csvFilePath, pageMounted, consumerState, tableControls,
                 attempts, exports, downloads, exported, nextBlob>>

\* onChange of the file input: no file and a name that does not end in .csv
\* end in the uploader's error; else the error is cleared and the read starts
handleFileChange(file) ==
  /\ pageMounted
  /\ IF ~file.present
     THEN /\ uploaderError' = SelectFileMessage
          /\ UNCHANGED reading
     ELSE IF ~endsWith(file.name, DotCsv)
     THEN /\ uploaderError' = NotCsvMessage
          /\ UNCHANGED reading
     ELSE /\ nextBlob + reading < MaxReads
          /\ uploaderError' = NoError
          /\ reading' = reading + 1
  /\ UNCHANGED outsideUploader

\* reader.onload with the text of the file: the blob URL is created and selected
ReaderLoads ==
  /\ pageMounted
  /\ reading > 0
  /\ reading' = reading - 1
  /\ SelectBlob
  /\ UNCHANGED uploaderError

\* reader.onload of an empty file: event.target.result is "", nothing is done
ReaderLoadsNothing ==
  /\ pageMounted
  /\ reading > 0
  /\ reading' = reading - 1
  /\ UNCHANGED <<uploaderError, outsideUploader>>

\* reader.onload whose try block throws: catch sets the uploader's error
ProcessingFails ==
  /\ pageMounted
  /\ reading > 0
  /\ reading' = reading - 1
  /\ uploaderError' = ProcessingMessage
  /\ UNCHANGED outsideUploader

\* reader.onerror
ReaderFails ==
  /\ pageMounted
  /\ reading > 0
  /\ reading' = reading - 1
  /\ uploaderError' = ReadingMessage
  /\ UNCHANGED outsideUploader

\* the object URLs of the uploader that have not been revoked: neither the
\* uploader nor handleFileSelected calls URL.revokeObjectURL, so all of them
UnrevokedBlobUrls == {BlobUrl(k) : k \in 1..nextBlob}

\* the page goes away: the cleanup of the component's effect runs
Unmount ==
  /\ pageMounted
  /\ pageMounted' = FALSE
  /\ attempts' = Cleanup(attempts)
  /\ UNCHANGED <<consumer, csvFilePath, pageErrors, consumerState, tableControls,
                 exports, downloads, exported, nextBlob, uploaderError, reading>>

\* onChange of the filter box
SetFilter(f) ==
  /\ pageMounted
  /\ consumer = "table"
  /\ Render = "content"
  /\ f # filter
  /\ filter' = f
  /\ UNCHANGED <<consumer, csvFilePath, pageErrors, pageMounted, consumerState,
                 sortField, sortAsc, attempts, exports, downloads, exported, nextBlob, uploaderError, reading>>

\* onClick that flips the direction whatever the column was
ClickHeaderAlwaysFlips(header) ==
  /\ pageMounted
  /\ \E i \in 1..Len(Headers) : Headers[i] = header
  /\ sortField' = header
  /\ sortAsc' = ~sortAsc
  /\ UNCHANGED <<consumer, csvFilePath, pageErrors, pageMounted, consumerState,
                 filter, attempts, exports, downloads, exported, nextBlob, uploaderError, reading>>

\* onClick of a column header
ClickHeader(header) ==
  /\ pageMounted
  /\ \E i \in 1..Len(Headers) : Headers[i] = header
  /\ sortField' = header
  /\ sortAsc' = IF sortField = header THEN ~sortAsc ELSE TRUE
  /\ UNCHANGED <<consumer, csvFilePath, pageErrors, pageMounted, consumerState,
                 filter, attempts, exports, downloads, exported, nextBlob, uploaderError, reading>>

(***************************************************************************)
(* The page: export.                                                       *)
(***************************************************************************)
\* disabled={!csvFilePath}
ExportDisabled == csvFilePath = EmptyPath

\* one run of handleExport: the path it fetches and where it is ("fetch",
\* "text": awaiting response.text(), "done")
NewExport(path) == [src |-> path, pc |-> "fetch"]

\* a click on Export CSV
handleExport ==
  /\ pageMounted
  /\ ~ExportDisabled
  /\ Len(exports) < MaxExports
  /\ IF csvFilePath = EmptyPath
     THEN /\ csvError' = SelectionMessage
          /\ UNCHANGED <<fetchError, parseError, exportError, exports>>
     ELSE /\ csvError' = NoError
          /\ fetchError' = NoError
          /\ parseError' = NoError
          /\ exportError' = NoError
          /\ exports' = Append(exports, NewExport(csvFilePath))
  /\ UNCHANGED <<consumer, csvFilePath, pageMounted, consumerState, tableControls,
                 attempts, downloads, exported, nextBlob, uploaderError, reading>>

ExportMoves(e, pc) == exports' = [exports EXCEPT ![e].pc = pc]

exportFrame == <<consumer, csvFilePath, pageMounted, consumerState, tableControls,
                 attempts, nextBlob, uploaderError, reading>>

\* .catch((err) => setFetchError(`Error fetching CSV file: ${err.message}`))
ExportCatch(e, msg) ==
  /\ fetchError' = FetchErrorMessage(msg)
  /\ ExportMoves(e, "done")
  /\ UNCHANGED <<csvError, parseError, exportError, downloads, exported>>

\* the export's fetch resolves with an ok response
ExportFetchOk(e) ==
  /\ exports[e].pc = "fetch"
  /\ ExportMoves(e, "text")
  /\ UNCHANGED <<pageErrors, downloads, exported, exportFrame>>

\* the export's fetch resolves with a response that is not ok
ExportFetchNotOk(e, status) ==
  /\ exports[e].pc = "fetch"
  /\ ExportCatch(e, NotOkMessage(status))
  /\ UNCHANGED exportFrame

\* the export's fetch or response.text() rejects
ExportRejects(e, msg) ==
  /\ exports[e].pc \in {"fetch", "text"}
  /\ ExportCatch(e, msg)
  /\ UNCHANGED exportFrame

\* one row of results.data in the export's sanitizing loop, which has no test
\* of the row: a row that is not an object has no entries
ExportSanitizeRow(row) ==
  [i \in 1..Len(row.entries) |->
     Entry(row.entries[i].key, SanitizeValue(row.entries[i].value))]

\* results.data.map(sanitize) of the export
ExportSanitize(rows) == [i \in 1..Len(rows) |-> ExportSanitizeRow(rows[i])]

\* complete with the download started before the serialization is known to work
ExportCompleteDownloadsFirst(e, r, throws) ==
  /\ ExportMoves(e, "done")
  /\ IF r.errors > 0
     THEN /\ parseError' = ParseErrorMessage
          /\ UNCHANGED <<csvError, fetchError, exportError, downloads, exported>>
     ELSE IF throws
     THEN /\ exportError' = ExportErrorMessage
          /\ downloads' = downloads + 1
          /\ exported' = ExportSanitize(r.data)
          /\ UNCHANGED <<csvError, fetchError, parseError>>
     ELSE /\ downloads' = downloads + 1
          /\ exported' = ExportSanitize(r.data)
          /\ UNCHANGED pageErrors

\* complete: (results) => ...: row-level errors end in the parse error; else
\* the records are sanitized and serialized, and the file is downloaded unless
\* the serialization throws
ExportComplete(e, r, throws) ==
  /\ ExportMoves(e, "done")
  /\ IF r.errors > 0
     THEN /\ parseError' = ParseErrorMessage
          /\ UNCHANGED <<csvError, fetchError, exportError, downloads, exported>>
     ELSE IF throws
     THEN /\ exportError' = ExportErrorMessage
          /\ UNCHANGED <<csvError, fetchError, parseError, downloads, exported>>
     ELSE /\ downloads' = downloads + 1
          /\ exported' = ExportSanitize(r.data)
          /\ UNCHANGED pageErrors

\* response.text() resolves; Papa.parse runs and calls complete(results)
ExportParseCompletes(e, r, throws) ==
  /\ exports[e].pc = "text"
  /\ ExportComplete(e, r, throws)
  /\ UNCHANGED exportFrame

\* response.text() resolves; Papa.parse runs and calls error(err)
ExportParseFails(e) ==
  /\ exports[e].pc = "text"
  /\ ExportMoves(e, "done")
  /\ parseError' = ParseErrorMessage
  /\ UNCHANGED <<csvError, fetchError, exportError, downloads, exported, exportFrame>>

(***************************************************************************)
(* The specifications.                                                     *)
(***************************************************************************)
Columns == {"name", "price", "__parsed_extra"}

\* a step of a run of fetchData
Ingest ==
  \/ \E a \in attempts : FetchOk(a)
  \/ \E a \in attempts : \E s \in Statuses : FetchNotOk(a, s)
  \/ \E a \in attempts : \E m \in RejectMessages : AwaitRejects(a, m)
  \/ \E a \in attempts : \E r \in ParseResults : ParseCompletes(a, r)
  \/ \E a \in attempts : \E m \in ParserMessages : ParseFails(a, m)

\* a step of a run of handleExport
Export ==
  \/ \E e \in 1..Len(exports) : ExportFetchOk(e)
  \/ \E e \in 1..Len(exports) : \E s \in Statuses : ExportFetchNotOk(e, s)
  \/ \E e \in 1..Len(exports) : \E m \in RejectMessages : ExportRejects(e, m)
  \/ \E e \in 1..Len(exports) : \E r \in ParseResults : \E t \in BOOLEAN :
       ExportParseCompletes(e, r, t)
  \/ \E e \in 1..Len(exports) : ExportParseFails(e)

\* the page with its component and the table's controls, no export started
Next ==
  \/ UploadFile
  \/ Unmount
  \/ \E f \in Filters : SetFilter(f)
  \/ \E h \in Columns : ClickHeader(h)
  \/ Ingest

Spec == Init /\ [][Next]_vars

\* the page, mounted, with its component and its exports, the table's controls
\* untouched; the one upload followed is the file that replaces the initial
\* source
NextExport ==
  \/ (csvFilePath = DefaultPath /\ UploadFile)
  \/ handleExport
  \/ Ingest
  \/ Export

\* the exports read nothing of the component: it is the table that is followed
InitExport == Init /\ consumer = "table"

SpecExport == InitExport /\ [][NextExport]_vars

\* the first run of fetchData up to complete(results), for results of a set
LoadFrom(results) ==
  \/ \E a \in attempts : FetchOk(a)
  \/ \E a \in attempts : \E r \in results : ParseCompletes(a, r)

\* the component loads the text of one CSV file; the table's controls
NextView ==
  \/ LoadFrom(TextResults)
  \/ \E f \in Filters : SetFilter(f)
  \/ \E h \in Columns : ClickHeader(h)

SpecView == Init /\ [][NextView]_vars

\* the same with rows of any values in results.data
NextKinds ==
  \/ LoadFrom(AnyResults)
  \/ \E f \in Filters : SetFilter(f)
  \/ \E h \in Columns : ClickHeader(h)

SpecKinds == Init /\ [][NextKinds]_vars

\* the table loads its source, the user filters it and exports
NextExportView ==
  \/ LoadFrom(ParseResults)
  \/ \E f \in Filters : SetFilter(f)
  \/ handleExport
  \/ Export

SpecExportView == InitExport /\ [][NextExportView]_vars

\* a step of the uploader
Upload ==
  \/ \E file \in Files : handleFileChange(file)
  \/ ReaderLoads
  \/ ReaderLoadsNothing
  \/ ProcessingFails
  \/ ReaderFails

\* the page with its uploader, its component and the first export
NextUpload ==
  \/ Upload
  \/ Ingest
  \/ (exports = << >> /\ handleExport)
  \/ Export

SpecUpload == Init /\ [][NextUpload]_vars

(***************************************************************************)
(* The ingestion state machine of a component.                             *)
(***************************************************************************)
\* the run of the current selection: the one whose isMounted is still true
Live(a) == a.isMounted

\* FetchFailed or ParseFailed: not loading, with an error
IsFailed == ~loading /\ Truthy(error)

\* a run whose isMounted is false never writes data, error or loading
StaleNeverWrites ==
  [][\A a \in attempts : (~Live(a) /\ a \notin attempts') => UNCHANGED consumerState]_vars

\* C1: while the run of a newly selected source is in flight the component is
\* Loading and holds neither the previous rows nor the previous error.
C1_SelectionResetsToLoading ==
  (\E a \in attempts : Live(a)) => (loading /\ data = << >> /\ error = NoError)

\* C2: a run that was superseded or whose component unmounted never writes,
\* and when the run of the current selection ends the component holds that
\* run's result: its rows and no error after complete, its message after a
\* failure.
C2_LastSelectionWins ==
  [][\A a \in attempts :
       /\ (~Live(a) /\ a \notin attempts') => UNCHANGED consumerState
       /\ \A r \in ParseResults :
            (Live(a) /\ ParseCompletes(a, r)) =>
              (data' = Sanitize(r.data) /\ error' = NoError /\ ~loading')
       /\ \A s \in Statuses :
            (Live(a) /\ FetchNotOk(a, s)) => (error' = HttpErrorMessage(s) /\ ~loading')
       /\ \A m \in RejectMessages :
            (Live(a) /\ AwaitRejects(a, m)) => (error' = m /\ ~loading')]_vars

\* C3: from FetchFailed or ParseFailed, when the run of a newly selected
\* source fetches and parses without error, the component is Ready with the
\* new rows and no error.
C3_RecoveryByReselection ==
  [][\A a \in attempts : \A r \in ParseResults :
       (IsFailed /\ Live(a) /\ a.src = csvFilePath /\ r.errors = 0 /\ ParseCompletes(a, r))
         => (~loading' /\ error' = NoError /\ data' = Sanitize(r.data))]_vars

\* C4: when the parser reports row-level errors for the text of the current
\* selection, an error is recorded and the parsed rows do not become the
\* component's data.
C4_RowErrorsFailTheParse ==
  [][\A a \in attempts : \A r \in ParseResults :
       (Live(a) /\ r.errors > 0 /\ ParseCompletes(a, r))
         => (Truthy(error') /\ ~loading' /\ data' = data)]_vars

\* the message names the status
ContainsStatus(msg, status) == \E i \in 1..Len(msg) : msg[i] = ToString(status)

\* C5: when the fetch of the selected source answers with a status s that is
\* not ok, the component ends with an error message containing s, loading
\* false, its data as before the failure, and no chart data.
C5_FetchNotOkFails ==
  [][\A a \in attempts : \A s \in Statuses :
       (Live(a) /\ a.src = csvFilePath /\ FetchNotOk(a, s))
         => /\ ContainsStatus(error', s)
            /\ loading' = FALSE
            /\ data' = data
            /\ ChartDataOf(data', loading', error') = NoChart]_vars

\* a chart whose first fetch answered not ok: failed, with no rows
C5_Witness ==
  /\ consumer = "chart"
  /\ \E s \in Statuses : ContainsStatus(error, s)
  /\ IsFailed
  /\ data = << >>
  /\ ChartData = NoChart
  /\ \A a \in attempts : ~Live(a)

(***************************************************************************)
(* The page's four errors.                                                 *)
(***************************************************************************)
ErrorsSet == {i \in 1..4 : Truthy(pageErrors[i])}

\* C6: starting an export or selecting a source clears the four errors, and
\* in every state at most one of the four is set.
C6_ErrorsMutuallyExclusive ==
  [][/\ (handleExport \/ UploadFile) => ErrorsSet' = {}
     /\ Cardinality(ErrorsSet') <= 1]_vars

(***************************************************************************)
(* What a component shows.                                                 *)
(***************************************************************************)
\* C7: with its error set, the table's filtered and sorted rows are empty and
\* it displays no row, and the chart has no chart data.
C7_NoOutputBesideError ==
  error # NoError =>
    /\ consumer = "table" =>
         (FilteredData = << >> /\ SortedData = << >> /\ DisplayedRows = << >>)
    /\ consumer = "chart" => ChartData = NoChart

\* the table holds an error and rows that pass the filter
C7_Witness ==
  /\ consumer = "table"
  /\ error # NoError
  /\ ~loading
  /\ FilterRows(data, filter) # << >>

(***************************************************************************)
(* Export.                                                                 *)
(***************************************************************************)
\* C8: an export started while the table holds no row sets the selection
\* error and starts no fetch and no download.
C8_ExportWithoutRows ==
  [][(Len(data) = 0 /\ handleExport)
       => (csvError' = SelectionMessage /\ UNCHANGED <<exports, downloads>>)]_vars

ContainsIgnoringCase(s, f) ==
  \E off \in 0..(Len(s) - Len(f)) :
    \A k \in 1..Len(f) : LowerChar(s[off + k]) = LowerChar(f[k])

\* the indices of the records with a value whose string contains f
Retained(rows, f) ==
  {i \in 1..Len(rows) :
     \E j \in 1..Len(rows[i]) : ContainsIgnoringCase(String(rows[i][j].value), f)}

\* view is rows restricted to the indices of kept, in the order of rows
IsRestriction(view, rows, kept) ==
  /\ Len(view) = Cardinality(kept)
  /\ \A j \in 1..Len(view) :
       view[j] = rows[CHOOSE i \in kept : Cardinality({m \in kept : m <= i}) = j]

\* the filtered rows are the records with a value containing the filter, in
\* source order
FilterKeepsMatches ==
  (consumer = "table" /\ Render = "content")
    => IsRestriction(FilteredData, data, Retained(data, filter))

\* C10: the filtered rows are exactly the records with a value containing the
\* filter, case ignored, in source order; with the empty filter they are all
\* the records.
C10_FilterRetains ==
  (consumer = "table" /\ Render = "content")
    => /\ IsRestriction(FilteredData, data, Retained(data, filter))
       /\ filter = << >> => FilteredData = data

(***************************************************************************)
(* The sort.                                                               *)
(***************************************************************************)
\* the place of a record in a view (the records of a catalog entry differ)
PlaceIn(view, rec) == CHOOSE i \in 1..Len(view) : view[i] = rec

\* a precedes b in a view
Precedes(view, a, b) == PlaceIn(view, a) < PlaceIn(view, b)

\* two records tie under a column: neither has a value under it, or both have
\* one and the two values compare equal
Tied(a, b, field) ==
  \/ field = NoSort
  \/ IsNullish(Get(a, field)) /\ IsNullish(Get(b, field))
  \/ /\ ~IsNullish(Get(a, field))
     /\ ~IsNullish(Get(b, field))
     /\ Compare(a, b, field, TRUE) = 0

\* C11: the descending view is the ascending view with every pair of records
\* that do not tie in the opposite order, two records that tie are in source
\* order in both views, and with no sort column the view is in source order.
C11_DescendingReversesAscending ==
  LET rows == FilteredData
      up == SortedDataOf(rows, sortField, TRUE)
      down == SortedDataOf(rows, sortField, FALSE)
  IN /\ sortField = NoSort => SortedData = rows
     /\ \A i, j \in 1..Len(rows) :
          i < j =>
            IF Tied(rows[i], rows[j], sortField)
            THEN Precedes(up, rows[i], rows[j]) /\ Precedes(down, rows[i], rows[j])
            ELSE Precedes(up, rows[i], rows[j]) <=> Precedes(down, rows[j], rows[i])

Sign(n) == IF n < 0 THEN -1 ELSE IF n > 0 THEN 1 ELSE 0

\* C12: under the sort column and direction of the table the comparison of
\* any two records is zero both ways or of opposite signs, it is transitive,
\* and sorting the sorted view again leaves it as it is.
C12_ComparatorIsTotalOrder ==
  LET cmp(a, b) == Sign(Compare(a, b, sortField, sortAsc))
      rows == FilteredData
  IN /\ \A i, j \in 1..Len(rows) : cmp(rows[i], rows[j]) = -cmp(rows[j], rows[i])
     /\ \A i, j, k \in 1..Len(rows) :
          (cmp(rows[i], rows[j]) <= 0 /\ cmp(rows[j], rows[k]) <= 0)
            => cmp(rows[i], rows[k]) <= 0
     /\ SortedDataOf(SortedData, sortField, sortAsc) = SortedData

\* a value that is a number, or a string that is the decimal text of one
FullyNumeric(val) ==
  \/ val.kind = "number"
  \/ val.kind = "string" /\ Len(val.s) > 0 /\ \A i \in 1..Len(val.s) : IsDigit(val.s[i])

\* the number such a value stands for
NumericValue(val) == IF val.kind = "number" THEN val.n ELSE NumberOf(val.s)

\* C13: two records of the sorted view whose values under the sort column are
\* numbers, or strings that are the text of a number, are in the order of
\* their numeric values when ascending and in the reverse order when
\* descending.
C13_NumbersSortByValue ==
  sortField # NoSort =>
    \A i, j \in 1..Len(SortedData) :
      LET aVal == Get(SortedData[i], sortField)
          bVal == Get(SortedData[j], sortField)
      IN (i < j /\ FullyNumeric(aVal) /\ FullyNumeric(bVal)) =>
           IF sortAsc THEN NumericValue(aVal) <= NumericValue(bVal)
           ELSE NumericValue(aVal) >= NumericValue(bVal)

\* C14: when exactly one of two records has null or undefined under a column,
\* the comparator puts that record first ascending and last descending in
\* either argument position, and the sorted view of the table has it before
\* the other when ascending and after it when descending.
C14_MissingValuesFirstAscending ==
  /\ \A field \in Columns : \A i, j \in 1..Len(data) :
       (IsNullish(Get(data[i], field)) /\ ~IsNullish(Get(data[j], field))) =>
         /\ Compare(data[i], data[j], field, TRUE) < 0
         /\ Compare(data[j], data[i], field, TRUE) > 0
         /\ Compare(data[i], data[j], field, FALSE) > 0
         /\ Compare(data[j], data[i], field, FALSE) < 0
  /\ sortField # NoSort =>
       \A i, j \in 1..Len(SortedData) :
         (IsNullish(Get(SortedData[i], sortField)) /\ ~IsNullish(Get(SortedData[j], sortField)))
           => IF sortAsc THEN i < j ELSE j < i

\* the table sorted descending by a column under which one record has a
\* number and another has nothing: the one without comes last
C14_Witness ==
  /\ consumer = "table"
  /\ sortField # NoSort
  /\ ~sortAsc
  /\ \E i, j \in 1..Len(SortedData) :
       /\ i < j
       /\ Get(SortedData[i], sortField).kind = "number"
       /\ IsNullish(Get(SortedData[j], sortField))

(***************************************************************************)
(* The chart.                                                              *)
(***************************************************************************)
\* the columns whose value in the first record is a number or the text of one
ChartedColumns(rows) ==
  LET Charted(key) == FullyNumeric(Get(rows[1], key))
  IN SelectSeq(Keys(rows[1]), Charted)

\* C15: the chart, once loaded without error, has one series for each column
\* whose value in the first record is a number or a string that is the text
\* of a number, and for no other column, whatever the later records hold;
\* without records or without such a column it has no chart data.
C15_SeriesFromFirstRecord ==
  (consumer = "chart" /\ ~loading /\ error = NoError) =>
    IF Len(data) = 0 \/ ChartedColumns(data) = << >> THEN ChartData = NoChart
    ELSE /\ ~ChartData.none
         /\ [k \in 1..Len(ChartData.datasets) |-> ChartData.datasets[k].label]
              = ChartedColumns(data)

\* C16: every series has one point for each record, in the order of the
\* records, under the labels Row 1 .. Row n; the point is the numeric value
\* of the cell when the cell is a number or the text of a number, and null
\* for any other cell: other text, an empty cell, a missing cell.
C16_OnePointPerRecord ==
  (consumer = "chart" /\ ~ChartData.none) =>
    /\ ChartData.labels = [i \in 1..Len(data) |-> <<"Row ", ToString(i)>>]
    /\ \A k \in 1..Len(ChartData.datasets) :
         LET series == ChartData.datasets[k]
         IN /\ Len(series.data) = Len(data)
            /\ \A i \in 1..Len(data) :
                 LET cell == Get(data[i], series.label)
                 IN series.data[i] = IF FullyNumeric(cell) THEN Point(NumericValue(cell))
                                     ELSE NullPoint

(***************************************************************************)
(* The table's controls.                                                   *)
(***************************************************************************)
\* C17: a click on the header of the sort column keeps the column and flips
\* the direction; a click on another header makes that column the sort
\* column, ascending; the records and the filter are as before the click.
C17_HeaderClick ==
  [][\A h \in Columns :
       ClickHeader(h) =>
         /\ sortField' = h
         /\ sortAsc' = (IF sortField = h THEN ~sortAsc ELSE TRUE)
         /\ data' = data
         /\ filter' = filter]_vars

\* the sort column was clicked again: the table is sorted descending, with
\* rows and a filter typed before the clicks
C17_Witness ==
  /\ consumer = "table"
  /\ sortField \in Columns
  /\ ~sortAsc
  /\ Len(data) > 0
  /\ filter # << >>

(***************************************************************************)
(* The sanitizing loop.                                                    *)
(***************************************************************************)
\* a value that is not an object, an array or a function: a string (the
\* placeholder and the text of a number are strings), a number, null, or
\* undefined
SafeScalar(val) == val.kind \in {"string", "number", "null", "undefined"}

\* C18: whatever the parser delivered, every value of every record the
\* component holds is a safe scalar, never an object, an array or a function.
C18_SanitizedValuesAreScalars ==
  \A i \in 1..Len(data) : \A k \in 1..Len(data[i]) : SafeScalar(data[i][k].value)

(***************************************************************************)
(* The object URLs of uploaded files.                                      *)
(***************************************************************************)
\* C19: every object URL the uploader created that is not the selected
\* source has been revoked, so at most one is unrevoked at any time.
C19_UnselectedUrlsRevoked ==
  /\ UnrevokedBlobUrls \ {csvFilePath} = {}
  /\ Cardinality(UnrevokedBlobUrls) <= 1

(***************************************************************************)
(* The runs of a component's ingestion.                                    *)
(***************************************************************************)
\* C20: at most one run of the component's ingestion can still write, and it
\* is a run for the selected source: a new selection has made every earlier
\* run unable to write before its own run can end.
C20_OneLiveRun ==
  /\ Cardinality({a \in attempts : Live(a)}) <= 1
  /\ \A a \in attempts : Live(a) => a.src = csvFilePath

\* the run of an earlier selection is still in flight, unable to write, next
\* to the run of the selected source
C20_Witness ==
  /\ \E a \in attempts : ~Live(a) /\ a.src # csvFilePath /\ a.pc = "text"
  /\ \E a \in attempts : Live(a) /\ a.src = csvFilePath
  /\ pageMounted

(***************************************************************************)
(* The uploader.                                                           *)
(***************************************************************************)
\* no file was chosen, or one whose name does not end in .csv
Rejected(file) == ~file.present \/ ~endsWith(file.name, DotCsv)

\* C21: a selection that is rejected (no file, a name that does not end in
\* .csv) and a read that fails set the uploader's error and leave the
\* selected source, the page's four errors and the component's data, loading
\* and error as they were; the selected source changes only in the step in
\* which the read of a .csv file ends with its text.
C21_RejectedSelectionFrame ==
  [][/\ \A file \in Files :
          (Rejected(file) /\ handleFileChange(file)) =>
            (Truthy(uploaderError') /\ UNCHANGED <<csvFilePath, pageErrors, consumerState>>)
     /\ ReaderFails =>
          (Truthy(uploaderError') /\ UNCHANGED <<csvFilePath, pageErrors, consumerState>>)
     /\ csvFilePath' # csvFilePath => ReaderLoads]_vars

\* a name was rejected while an uploaded file was the source, the component
\* held rows and one of the page's errors was set
C21_Witness ==
  /\ uploaderError = NotCsvMessage
  /\ csvFilePath # DefaultPath
  /\ ErrorsSet # {}
  /\ Len(data) > 0

(***************************************************************************)
(* What the export writes.                                                 *)
(***************************************************************************)
\* the table shows its rows: loaded, without error, with records
Ready == consumer = "table" /\ Render = "content"

\* C22: the file an export of a Ready table hands to the browser holds the
\* table's records that pass its filter and no other record, and an export
\* started on a Ready table starts no fetch of the source.
C22_ExportWritesFilteredData ==
  [][/\ (Ready /\ downloads' # downloads) => exported' = FilteredData
     /\ (Ready /\ handleExport) => UNCHANGED exports]_vars

====
